---- MODULE Spec2Model ----
(***************************************************************************)
(* Album API (1a/web-service-gin): an in-memory collection of albums       *)
(* served by five gin handlers.  Three specifications:                     *)
(*   Spec            requests served one at a time: the router hands a     *)
(*                   request to its handler, the handler runs to           *)
(*                   completion and writes the response, the response is   *)
(*                   sent;                                                 *)
(*   SpecValidators  one call of one validator;                            *)
(*   SpecConcurrent  requests served by goroutines that share albums.      *)
(*                                                                         *)
(* Strings are TLA+ strings over ASCII, so that Go's len (a byte count)    *)
(* is Len.  Prices are integers (hundredths), float64 in the source; only  *)
(* their order relative to 0 and their equality matter to the handlers.    *)
(***************************************************************************)
EXTENDS Integers, Sequences, FiniteSets, TLC

VARIABLES
  albums,     \* the collection: var albums []Album
  uuidCount,  \* how many ids the generator has handed out
  pc,         \* "idle": no request in hand; "done": a response was written
  req,        \* the request served last
  resp,       \* the response written to it
  returned,   \* history: the ids that 201 responses have carried so far
  local       \* the local variables of the handlers in flight (SpecConcurrent)

vars == <<albums, uuidCount, pc, req, resp, returned, local>>

\* ---------------------------------------------------------------- bounds
\* Number of ids the generator hands out before Create is no longer issued.
MaxCreates == 2

\* ------------------------------------------------------------- constants
MinLen == 2
MaxLen == 100
StatusOK == 200
StatusCreated == 201
StatusBadRequest == 400
StatusNotFound == 404

\* ------------------------------------------------------------ data model
Seed1 == "550e8400-e29b-41d4-a716-446655440001"
Seed2 == "550e8400-e29b-41d4-a716-446655440002"
Seed3 == "550e8400-e29b-41d4-a716-446655440003"

\* The seed collection.
seedAlbums ==
  << [ID |-> Seed1, Title |-> "Blue Train", Artist |-> "John Coltrane", Price |-> 5699],
     [ID |-> Seed2, Title |-> "Jeru", Artist |-> "Gerry Mulligan", Price |-> 1799],
     [ID |-> Seed3, Title |-> "Sarah Vaughan and Clifford Brown", Artist |-> "Sarah Vaughan", Price |-> 3999] >>

\* var newAlbum Album / var update Album: the zero value of the struct.
ZeroAlbum == [ID |-> "", Title |-> "", Artist |-> "", Price |-> 0]

\* Tokens of the id generator, in the order it returns them: pairwise
\* distinct and distinct from the seed ids.
UuidTokens ==
  << "uuid-0001", "uuid-0002", "uuid-0003", "uuid-0004", "uuid-0005", "uuid-0006" >>

\* uuid.New().String() when n tokens were handed out before.
uuidNew(n) == UuidTokens[n + 1]

\* ---------------------------------------------------------------- inputs
LongString == "xxxxxxxxxxxxxxxxxxxxxxxxxxxxxxxxxxxxxxxxxxxxxxxxxxxxxxxxxxxxxxxxxxxxxxxxxxxxxxxxxxxxxxxxxxxxxxxxxxxxx"

TitleInputs == {"", "A", "Kind of Blue", LongString}
ArtistInputs == {"", "M", "Miles Davis"}
PriceInputs == {-1, 0, 4999}
PayloadIDs == {"", Seed1}

\* A request body: malformed JSON, or JSON that decodes to an Album value
\* (absent fields decode to the zero value of their type).
BadBody == [malformed |-> TRUE, val |-> ZeroAlbum]
Bodies ==
  {BadBody} \cup
  { [malformed |-> FALSE, val |-> [ID |-> i, Title |-> t, Artist |-> a, Price |-> p]] :
      i \in PayloadIDs, t \in TitleInputs, a \in ArtistInputs, p \in PriceInputs }

\* The :id path parameter: two of the seed ids, an id no album ever has, and
\* the ids the generator can have handed out.
ParamIDs == {Seed1, Seed2, "not-found"} \cup {UuidTokens[k] : k \in 1..MaxCreates}

NoBody == [malformed |-> FALSE, val |-> ZeroAlbum]
NoReq == [op |-> "none", id |-> "", body |-> NoBody]
NoResp == [status |-> 0, error |-> "", details |-> "", message |-> "", body |-> <<>>]

\* ------------------------------------------------------------ validators
\* Go's builtin len on a string.
len(s) == Len(s)

validateTitle(title, required) ==
  IF required /\ title = "" THEN "Title is required"
  ELSE IF title # "" /\ (len(title) < MinLen \/ len(title) > MaxLen)
       THEN "Title must be between 2 and 100 characters"
  ELSE ""

\* Mutant of validateArtist: a string of the greatest length is turned down.
validateArtist_rejectsMaxLen(artist, required) ==
  IF required /\ artist = "" THEN "Artist is required"
  ELSE IF artist # "" /\ (len(artist) < MinLen \/ len(artist) >= MaxLen)
       THEN "Artist must be between 2 and 100 characters"
  ELSE ""

validateArtist(artist, required) ==
  IF required /\ artist = "" THEN "Artist is required"
  ELSE IF artist # "" /\ (len(artist) < MinLen \/ len(artist) > MaxLen)
       THEN "Artist must be between 2 and 100 characters"
  ELSE ""

validatePrice(price, required) ==
  IF required /\ price <= 0 THEN "Price is required and must be greater than 0"
  ELSE IF price < 0 THEN "Price must be greater than or equal to 0"
  ELSE ""

\* -------------------------------------------------------------- responses
\* c.IndentedJSON(status, album)
AlbumJSON(status, a) ==
  [status |-> status, error |-> "", details |-> "", message |-> "", body |-> <<a>>]

\* c.IndentedJSON(http.StatusBadRequest, gin.H{"error": errMsg})
ErrorJSON(errMsg) ==
  [status |-> StatusBadRequest, error |-> errMsg, details |-> "", message |-> "", body |-> <<>>]

\* c.IndentedJSON(http.StatusBadRequest, gin.H{"error": "Invalid JSON", "details": err.Error()})
InvalidJSON ==
  [status |-> StatusBadRequest, error |-> "Invalid JSON", details |-> "decode error",
   message |-> "", body |-> <<>>]

\* c.IndentedJSON(http.StatusNotFound, gin.H{"message": "album not found"})
NotFoundJSON ==
  [status |-> StatusNotFound, error |-> "", details |-> "", message |-> "album not found",
   body |-> <<>>]

\* c.ShouldBindJSON(&v): an error on a malformed body, else the decoded value.
ShouldBindJSON(body) == [err |-> body.malformed, val |-> body.val]

\* for i, a := range as { if a.ID == id {...} }: the index the loop stops at,
\* scanning from i; 0 when the loop runs off the end.
RECURSIVE scan(_, _, _)
scan(as, id, i) ==
  IF i > Len(as) THEN 0
  ELSE IF as[i].ID = id THEN i
  ELSE scan(as, id, i + 1)

\* ---------------------------------------------------------------- handlers
\* Every handler is a function of the collection, the generator's position
\* and the request; it yields the collection and the generator's position it
\* leaves behind and the response it writes.
Result(as, n, r) == [albums |-> as, uuidCount |-> n, resp |-> r]

\* c.IndentedJSON(http.StatusOK, albums)
getAlbums(as, n) ==
  Result(as, n, [status |-> StatusOK, error |-> "", details |-> "", message |-> "", body |-> as])

\* Mutant of assignID: the generated id is not written into the record.
assignID_keepsPayloadID(a, tok) == a

\* newAlbum.ID = uuid.New().String()
assignID(a, tok) == [a EXCEPT !.ID = tok]

\* Mutant of appendAlbum: the new record goes to the front.
appendAlbum_front(as, a) == <<a>> \o as

\* albums = append(albums, newAlbum)
appendAlbum(as, a) == Append(as, a)

\* Mutant of postAlbums: the decoder's error is not looked at.
postAlbums_ignoresBindError(as, n, body) ==
  LET bound == ShouldBindJSON(body)
      newAlbum == bound.val
      titleMsg == validateTitle(newAlbum.Title, TRUE)
      artistMsg == validateArtist(newAlbum.Artist, TRUE)
      priceMsg == validatePrice(newAlbum.Price, TRUE)
      created == assignID(newAlbum, uuidNew(n))
  IN  IF titleMsg # "" THEN Result(as, n, ErrorJSON(titleMsg))
      ELSE IF artistMsg # "" THEN Result(as, n, ErrorJSON(artistMsg))
      ELSE IF priceMsg # "" THEN Result(as, n, ErrorJSON(priceMsg))
      ELSE Result(appendAlbum(as, created), n + 1, AlbumJSON(StatusCreated, created))

\* Mutant of postAlbums: the artist is validated before the title.
postAlbums_artistFirst(as, n, body) ==
  LET bound == ShouldBindJSON(body)
      newAlbum == bound.val
      titleMsg == validateTitle(newAlbum.Title, TRUE)
      artistMsg == validateArtist(newAlbum.Artist, TRUE)
      priceMsg == validatePrice(newAlbum.Price, TRUE)
      created == assignID(newAlbum, uuidNew(n))
  IN  IF bound.err THEN Result(as, n, InvalidJSON)
      ELSE IF artistMsg # "" THEN Result(as, n, ErrorJSON(artistMsg))
      ELSE IF titleMsg # "" THEN Result(as, n, ErrorJSON(titleMsg))
      ELSE IF priceMsg # "" THEN Result(as, n, ErrorJSON(priceMsg))
      ELSE Result(appendAlbum(as, created), n + 1, AlbumJSON(StatusCreated, created))

postAlbums(as, n, body) ==
  LET bound == ShouldBindJSON(body)
      newAlbum == bound.val
      titleMsg == validateTitle(newAlbum.Title, TRUE)
      artistMsg == validateArtist(newAlbum.Artist, TRUE)
      priceMsg == validatePrice(newAlbum.Price, TRUE)
      created == assignID(newAlbum, uuidNew(n))
  IN  IF bound.err THEN Result(as, n, InvalidJSON)
      ELSE IF titleMsg # "" THEN Result(as, n, ErrorJSON(titleMsg))
      ELSE IF artistMsg # "" THEN Result(as, n, ErrorJSON(artistMsg))
      ELSE IF priceMsg # "" THEN Result(as, n, ErrorJSON(priceMsg))
      ELSE Result(appendAlbum(as, created), n + 1, AlbumJSON(StatusCreated, created))

getAlbumByID(as, n, id) ==
  LET i == scan(as, id, 1)
  IN  IF i # 0 THEN Result(as, n, AlbumJSON(StatusOK, as[i]))
      ELSE Result(as, n, NotFoundJSON)

\* Mutant of removeAt: the slice after the removed record starts one too far.
removeAt_offByOne(as, i) == SubSeq(as, 1, i) \o SubSeq(as, i + 2, Len(as))

\* append(albums[:i], albums[i+1:]...), i counted from 1
removeAt(as, i) == SubSeq(as, 1, i - 1) \o SubSeq(as, i + 1, Len(as))

deleteAlbumByID(as, n, id) ==
  LET i == scan(as, id, 1)
  IN  IF i # 0 THEN Result(removeAt(as, i), n, AlbumJSON(StatusOK, as[i]))
      ELSE Result(as, n, NotFoundJSON)

\* if update.Title != "" / if update.Artist != ""
providedString(s) == s # ""

\* Mutant of providedPrice: the price 0 counts as provided.
providedPrice_nonNegative(p) == p >= 0

\* Mutant of providedPrice: any price other than 0 counts as provided.
providedPrice_nonZero(p) == p # 0

\* if update.Price > 0
providedPrice(p) == p > 0

\* The price block of patchAlbumByID and the final response.
patchPrice(as, n, i, update) ==
  IF providedPrice(update.Price)
  THEN LET errMsg == validatePrice(update.Price, FALSE)
           as1 == [as EXCEPT ![i].Price = update.Price]
       IN  IF errMsg # "" THEN Result(as, n, ErrorJSON(errMsg))
           ELSE Result(as1, n, AlbumJSON(StatusOK, as1[i]))
  ELSE Result(as, n, AlbumJSON(StatusOK, as[i]))

\* Mutant of patchArtist: the artist is stored before it is validated.
patchArtist_storesFirst(as, n, i, update) ==
  IF providedString(update.Artist)
  THEN LET errMsg == validateArtist(update.Artist, FALSE)
           as1 == [as EXCEPT ![i].Artist = update.Artist]
       IN  IF errMsg # "" THEN Result(as1, n, ErrorJSON(errMsg))
           ELSE patchPrice(as1, n, i, update)
  ELSE patchPrice(as, n, i, update)

\* The artist block of patchAlbumByID, then the rest.
patchArtist(as, n, i, update) ==
  IF providedString(update.Artist)
  THEN LET errMsg == validateArtist(update.Artist, FALSE)
       IN  IF errMsg # "" THEN Result(as, n, ErrorJSON(errMsg))
           ELSE patchPrice([as EXCEPT ![i].Artist = update.Artist], n, i, update)
  ELSE patchPrice(as, n, i, update)

\* Mutant of patchTitle: the whole record is replaced by the payload.
patchTitle_replacesRecord(as, n, i, update) ==
  IF providedString(update.Title)
  THEN LET errMsg == validateTitle(update.Title, FALSE)
       IN  IF errMsg # "" THEN Result(as, n, ErrorJSON(errMsg))
           ELSE patchArtist([as EXCEPT ![i] = update], n, i, update)
  ELSE patchArtist(as, n, i, update)

\* Mutant of patchTitle: the artist and the price are handled before the
\* title is validated.
patchTitle_last(as, n, i, update) ==
  LET rest == patchArtist(as, n, i, update)
      errMsg == validateTitle(update.Title, FALSE)
  IN  IF rest.resp.status # StatusOK THEN rest
      ELSE IF ~providedString(update.Title) THEN rest
      ELSE IF errMsg # "" THEN Result(rest.albums, n, ErrorJSON(errMsg))
      ELSE LET as1 == [rest.albums EXCEPT ![i].Title = update.Title]
           IN  Result(as1, n, AlbumJSON(StatusOK, as1[i]))

\* Mutant of patchTitle: the title and the artist are both validated before
\* either is stored.
patchTitle_validatesAllFirst(as, n, i, update) ==
  LET titleMsg == IF providedString(update.Title) THEN validateTitle(update.Title, FALSE) ELSE ""
      artistMsg == IF providedString(update.Artist) THEN validateArtist(update.Artist, FALSE) ELSE ""
      as1 == IF providedString(update.Title) THEN [as EXCEPT ![i].Title = update.Title] ELSE as
  IN  IF titleMsg # "" THEN Result(as, n, ErrorJSON(titleMsg))
      ELSE IF artistMsg # "" THEN Result(as, n, ErrorJSON(artistMsg))
      ELSE patchArtist(as1, n, i, update)

\* The title block of patchAlbumByID, then the rest.
patchTitle(as, n, i, update) ==
  IF providedString(update.Title)
  THEN LET errMsg == validateTitle(update.Title, FALSE)
       IN  IF errMsg # "" THEN Result(as, n, ErrorJSON(errMsg))
           ELSE patchArtist([as EXCEPT ![i].Title = update.Title], n, i, update)
  ELSE patchArtist(as, n, i, update)

\* Mutant of patchAlbumByID: the body is decoded before the id is looked up.
patchAlbumByID_bindsFirst(as, n, id, body) ==
  LET i == scan(as, id, 1)
      bound == ShouldBindJSON(body)
  IN  IF bound.err THEN Result(as, n, InvalidJSON)
      ELSE IF i = 0 THEN Result(as, n, NotFoundJSON)
      ELSE patchTitle(as, n, i, bound.val)

patchAlbumByID(as, n, id, body) ==
  LET i == scan(as, id, 1)
      bound == ShouldBindJSON(body)
  IN  IF i = 0 THEN Result(as, n, NotFoundJSON)
      ELSE IF bound.err THEN Result(as, n, InvalidJSON)
      ELSE patchTitle(as, n, i, bound.val)

\* ------------------------------------------------------------ the server
Init ==
  /\ albums = seedAlbums
  /\ uuidCount = 0
  /\ pc = "idle"
  /\ req = NoReq
  /\ resp = NoResp
  /\ returned = {}
  /\ local = <<>>

\* The router hands request r to its handler, which runs to completion and
\* writes its response.
Serve(r, result) ==
  /\ pc = "idle"
  /\ req' = r
  /\ albums' = result.albums
  /\ uuidCount' = result.uuidCount
  /\ resp' = result.resp
  /\ returned' = IF r.op = "Create" /\ result.resp.status = StatusCreated
                 THEN returned \cup {result.resp.body[1].ID}
                 ELSE returned
  /\ pc' = "done"
  /\ UNCHANGED local

\* GET /albums
List ==
  Serve([op |-> "List", id |-> "", body |-> NoBody], getAlbums(albums, uuidCount))

\* POST /albums
Create ==
  /\ uuidCount < MaxCreates
  /\ \E b \in Bodies :
       Serve([op |-> "Create", id |-> "", body |-> b], postAlbums(albums, uuidCount, b))

\* GET /albums/:id
GetByID ==
  \E id \in ParamIDs :
    Serve([op |-> "Get", id |-> id, body |-> NoBody], getAlbumByID(albums, uuidCount, id))

\* DELETE /albums/:id
DeleteByID ==
  \E id \in ParamIDs :
    Serve([op |-> "Delete", id |-> id, body |-> NoBody], deleteAlbumByID(albums, uuidCount, id))

\* PATCH /albums/:id
PatchByID ==
  \E id \in ParamIDs, b \in Bodies :
    Serve([op |-> "Patch", id |-> id, body |-> b], patchAlbumByID(albums, uuidCount, id, b))

\* The response is sent and the request's context is dropped.
Respond ==
  /\ pc = "done"
  /\ pc' = "idle"
  /\ req' = NoReq
  /\ resp' = NoResp
  /\ UNCHANGED <<albums, uuidCount, returned, local>>

Next ==
  \/ List
  \/ Create
  \/ GetByID
  \/ DeleteByID
  \/ PatchByID
  \/ Respond

Spec == Init /\ [][Next]_vars

TypeOK ==
  /\ pc \in {"idle", "done"}
  /\ uuidCount \in 0..MaxCreates
  /\ Len(albums) <= Len(seedAlbums) + MaxCreates

\* ---------------------------------------------------------------- claims
\* The step is one in which the handler of op ran (to completion).
Ran(op) == pc = "idle" /\ pc' = "done" /\ req'.op = op

\* The state is one a handler of op has just left.
After(op) == pc = "done" /\ req.op = op

\* The ids of the albums of a collection.
IDsOf(as) == {as[i].ID : i \in 1..Len(as)}

\* C1: in every reachable state every album in the collection has a
\* non-empty id and no two albums in the collection have the same id.
C1_UniqueNonEmptyIDs ==
  /\ \A i \in 1..Len(albums) : albums[i].ID # ""
  /\ \A i, j \in 1..Len(albums) : i # j => albums[i].ID # albums[j].ID

\* A Create whose payload carried the id of an album in the collection has
\* stored its record, and that album is still in the collection.
C1_Witness ==
  /\ After("Create")
  /\ resp.status = StatusCreated
  /\ req.body.val.ID = Seed1
  /\ Seed1 \in IDsOf(albums)
  /\ Len(albums) = Len(seedAlbums) + 1

\* C2: in every reachable state every album in the collection has a title
\* and an artist of length 2 to 100 and a price that is not negative,
\* whatever requests failed validation part-way before.
C2_FieldConstraints ==
  \A i \in 1..Len(albums) :
    /\ len(albums[i].Title) >= MinLen /\ len(albums[i].Title) <= MaxLen
    /\ len(albums[i].Artist) >= MinLen /\ len(albums[i].Artist) <= MaxLen
    /\ albums[i].Price >= 0

\* A Patch that stored a new title and then failed on the artist.
C2_Witness ==
  /\ After("Patch")
  /\ resp.status = StatusBadRequest
  /\ resp.error = "Artist must be between 2 and 100 characters"
  /\ req.body.val.Title = "Kind of Blue"
  /\ \E i \in 1..Len(albums) : albums[i].ID = req.id /\ albums[i].Title = "Kind of Blue"

\* The payload passes required validation: title and artist of length 2 to
\* 100, price greater than 0.
ValidPayload(b) ==
  /\ ~b.malformed
  /\ len(b.val.Title) >= MinLen /\ len(b.val.Title) <= MaxLen
  /\ len(b.val.Artist) >= MinLen /\ len(b.val.Artist) <= MaxLen
  /\ b.val.Price > 0

\* C3: a Create with a valid payload answers 201 with a record whose id is
\* not empty, is the id of no album in the collection before the call, is not
\* the id the payload carried and is the id no earlier Create returned; it
\* makes the collection one record longer.
C3_CreateFreshID ==
  [][ (Ran("Create") /\ ValidPayload(req'.body)) =>
        /\ resp'.status = StatusCreated
        /\ Len(resp'.body) = 1
        /\ resp'.body[1].ID # ""
        /\ resp'.body[1].ID \notin IDsOf(albums)
        /\ resp'.body[1].ID # req'.body.val.ID
        /\ resp'.body[1].ID \notin returned
        /\ Len(albums') = Len(albums) + 1
        /\ albums'[Len(albums')].ID = resp'.body[1].ID ]_vars

\* Two Creates with the same payload, which carried an id, have both stored a
\* record.
C3_Witness ==
  /\ After("Create")
  /\ resp.status = StatusCreated
  /\ Cardinality(returned) = 2
  /\ req.body.val.ID = Seed1
  /\ Len(albums) = Len(seedAlbums) + 2
  /\ albums[Len(albums)].Title = albums[Len(albums) - 1].Title
  /\ albums[Len(albums)].Artist = albums[Len(albums) - 1].Artist
  /\ albums[Len(albums)].Price = albums[Len(albums) - 1].Price
  /\ albums[Len(albums)].ID # albums[Len(albums) - 1].ID

\* C4: a successful Create(x) appends exactly one record at the end of the
\* collection and leaves the earlier records and their order as they were; the
\* record has the title, artist and price of x, and a GetByID of the returned
\* id in the state the Create leaves answers 200 with those values.
C4_CreateAppendsRoundTrip ==
  [][ (Ran("Create") /\ resp'.status = StatusCreated) =>
        LET x == req'.body.val
            got == getAlbumByID(albums', uuidCount', resp'.body[1].ID)
        IN  /\ Len(albums') = Len(albums) + 1
            /\ SubSeq(albums', 1, Len(albums)) = albums
            /\ albums'[Len(albums')].Title = x.Title
            /\ albums'[Len(albums')].Artist = x.Artist
            /\ albums'[Len(albums')].Price = x.Price
            /\ got.albums = albums'
            /\ got.resp.status = StatusOK
            /\ Len(got.resp.body) = 1
            /\ got.resp.body[1].ID = resp'.body[1].ID
            /\ got.resp.body[1].Title = x.Title
            /\ got.resp.body[1].Artist = x.Artist
            /\ got.resp.body[1].Price = x.Price ]_vars

\* A GetByID of an id that a Create returned has answered 200 with the
\* created record, which is the last of the collection.
C4_Witness ==
  /\ After("Get")
  /\ req.id \in returned
  /\ resp.status = StatusOK
  /\ resp.body[1] = albums[Len(albums)]
  /\ resp.body[1].Title = "Kind of Blue"
  /\ resp.body[1].Artist = "Miles Davis"
  /\ resp.body[1].Price = 4999
  /\ Len(albums) = Len(seedAlbums) + 1

\* The message of the first field, in the order title, artist, price, that
\* fails required validation; "" when none fails.
FirstRequiredFailure(a) ==
  IF validateTitle(a.Title, TRUE) # "" THEN validateTitle(a.Title, TRUE)
  ELSE IF validateArtist(a.Artist, TRUE) # "" THEN validateArtist(a.Artist, TRUE)
  ELSE validatePrice(a.Price, TRUE)

\* C5: a Create whose (well-formed) payload fails required validation answers
\* 400 with the message of the first failing field in the order title, artist,
\* price, and leaves the collection and the id generator as they were.
C5_CreateValidationFailure ==
  [][ (Ran("Create") /\ ~req'.body.malformed /\ ~ValidPayload(req'.body)) =>
        /\ resp'.status = StatusBadRequest
        /\ resp'.error = FirstRequiredFailure(req'.body.val)
        /\ resp'.error # ""
        /\ resp'.body = <<>>
        /\ albums' = albums
        /\ uuidCount' = uuidCount
        /\ returned' = returned ]_vars

\* A Create whose title is too short and whose artist and price are missing
\* has answered 400 with the title's message.
C5_Witness ==
  /\ After("Create")
  /\ req.body.val.Title = "A"
  /\ req.body.val.Artist = ""
  /\ req.body.val.Price = 0
  /\ resp.status = StatusBadRequest
  /\ resp.error = "Title must be between 2 and 100 characters"
  /\ albums = seedAlbums

\* The position of the first album with the id in a collection; 0 when no
\* album has it.
PositionOf(as, id) ==
  IF id \in IDsOf(as) THEN CHOOSE i \in 1..Len(as) :
                             as[i].ID = id /\ \A j \in 1..(i - 1) : as[j].ID # id
  ELSE 0

\* C6: GetByID, DeleteByID and PatchByID of an id that no album in the
\* collection has answer 404 with the message "album not found" and leave the
\* collection unchanged.
C6_AbsentIDNotFound ==
  [][ ((Ran("Get") \/ Ran("Delete") \/ Ran("Patch")) /\ req'.id \notin IDsOf(albums)) =>
        /\ resp'.status = StatusNotFound
        /\ resp'.message = "album not found"
        /\ resp'.body = <<>>
        /\ albums' = albums ]_vars

\* A Patch with a malformed body of the id of a deleted seed album has
\* answered 404.
C6_Witness ==
  /\ After("Patch")
  /\ req.id = Seed1
  /\ req.body.malformed
  /\ Seed1 \notin IDsOf(albums)
  /\ resp.status = StatusNotFound

\* C7: DeleteByID of an id in the collection answers 200 with the removed
\* record; the collection is one shorter, the records before the removed one
\* are where they were, the records after it have moved down by one, and a
\* GetByID of the id in the state the Delete leaves answers 404.
C7_DeleteRemovesOne ==
  [][ (Ran("Delete") /\ req'.id \in IDsOf(albums)) =>
        LET k == PositionOf(albums, req'.id)
        IN  /\ resp'.status = StatusOK
            /\ resp'.body = <<albums[k]>>
            /\ Len(albums') = Len(albums) - 1
            /\ \A j \in 1..(k - 1) : albums'[j] = albums[j]
            /\ \A j \in k..Len(albums') : albums'[j] = albums[j + 1]
            /\ req'.id \notin IDsOf(albums')
            /\ getAlbumByID(albums', uuidCount', req'.id).resp.status = StatusNotFound ]_vars

\* A Delete of the second seed album, with albums on both sides of it, has
\* answered 200.
C7_Witness ==
  /\ After("Delete")
  /\ req.id = Seed2
  /\ resp.status = StatusOK
  /\ resp.body[1].ID = Seed2
  /\ Len(albums) = Len(seedAlbums)
  /\ albums[1].ID = Seed1
  /\ albums[2].ID = Seed3
  /\ albums[3].ID \in returned

\* C8: a PatchByID that answers 200 has overwritten, in the record with the
\* id, exactly the fields among title, artist and price that the payload
\* provided (non-empty string, price above 0), each with the payload's value;
\* the record's id, its position and every other record are unchanged, and the
\* response carries the updated record.
C8_PatchFrame ==
  [][ (Ran("Patch") /\ resp'.status = StatusOK) =>
        LET k == PositionOf(albums, req'.id)
            u == req'.body.val
        IN  /\ k # 0
            /\ Len(albums') = Len(albums)
            /\ \A j \in 1..Len(albums) : j # k => albums'[j] = albums[j]
            /\ albums'[k].ID = albums[k].ID
            /\ albums'[k].Title = (IF u.Title # "" THEN u.Title ELSE albums[k].Title)
            /\ albums'[k].Artist = (IF u.Artist # "" THEN u.Artist ELSE albums[k].Artist)
            /\ albums'[k].Price = (IF u.Price > 0 THEN u.Price ELSE albums[k].Price)
            /\ len(albums'[k].Title) >= MinLen /\ len(albums'[k].Title) <= MaxLen
            /\ len(albums'[k].Artist) >= MinLen /\ len(albums'[k].Artist) <= MaxLen
            /\ resp'.body = <<albums'[k]>> ]_vars

\* A Patch of the second seed album whose payload carried another album's id
\* and a title only has answered 200: the title is the new one, the id, the
\* artist and the price are the seed's.
C8_Witness ==
  /\ After("Patch")
  /\ req.id = Seed2
  /\ req.body.val = [ID |-> Seed1, Title |-> "Kind of Blue", Artist |-> "", Price |-> 0]
  /\ resp.status = StatusOK
  /\ albums[2] = [seedAlbums[2] EXCEPT !.Title = "Kind of Blue"]
  /\ albums[1] = seedAlbums[1]
  /\ albums[3] = seedAlbums[3]

\* The messages the validators of a field can return.
TitleMessages == {"Title is required", "Title must be between 2 and 100 characters"}
ArtistMessages == {"Artist is required", "Artist must be between 2 and 100 characters"}
PriceMessages ==
  {"Price is required and must be greater than 0", "Price must be greater than or equal to 0"}

\* C9: in a PatchByID of an id in the collection with a well-formed payload,
\* an empty title, an empty artist and a price <= 0 are left untouched in the
\* record and draw no validation message; a payload with nothing but such
\* fields answers 200 and leaves the collection unchanged; and no Patch makes
\* a price 0 or a title or artist empty.
C9_PatchFalsyNotProvided ==
  [][ (Ran("Patch") /\ req'.id \in IDsOf(albums) /\ ~req'.body.malformed) =>
        LET k == PositionOf(albums, req'.id)
            u == req'.body.val
        IN  /\ u.Title = "" => albums'[k].Title = albums[k].Title /\ resp'.error \notin TitleMessages
            /\ u.Artist = "" => albums'[k].Artist = albums[k].Artist /\ resp'.error \notin ArtistMessages
            /\ u.Price <= 0 => albums'[k].Price = albums[k].Price /\ resp'.error \notin PriceMessages
            /\ (u.Title = "" /\ u.Artist = "" /\ u.Price <= 0) =>
                 /\ resp'.status = StatusOK
                 /\ resp'.body = <<albums[k]>>
                 /\ albums' = albums
            /\ albums[k].Price # 0 => albums'[k].Price # 0
            /\ albums[k].Title # "" => albums'[k].Title # ""
            /\ albums[k].Artist # "" => albums'[k].Artist # "" ]_vars

\* A Patch of a seed album with an empty title, an empty artist and a
\* negative price has answered 200 with the record as it was.
C9_Witness ==
  /\ After("Patch")
  /\ req.id = Seed1
  /\ req.body.val.Title = ""
  /\ req.body.val.Artist = ""
  /\ req.body.val.Price = -1
  /\ ~req.body.malformed
  /\ resp.status = StatusOK
  /\ resp.body = <<seedAlbums[1]>>
  /\ albums = seedAlbums

\* The response is a ValidationFailed: 400 with a validator's message.
ValidationFailed(r) ==
  r.status = StatusBadRequest /\ r.error \in TitleMessages \cup ArtistMessages \cup PriceMessages

\* C10 as stated: whenever PatchByID of an id in the collection answers
\* ValidationFailed, the record's title, artist and price are what they were
\* before the call.
C10_PatchFailureLeavesRecord ==
  [][ (Ran("Patch") /\ req'.id \in IDsOf(albums) /\ ValidationFailed(resp')) =>
        LET k == PositionOf(albums, req'.id)
        IN  /\ albums'[k].Title = albums[k].Title
            /\ albums'[k].Artist = albums[k].Artist
            /\ albums'[k].Price = albums[k].Price ]_vars

\* C10 amended: whenever PatchByID of an id in the collection answers
\* ValidationFailed, the failing field and the fields after it in the order
\* title, artist, price are what they were before the call, and a field before
\* the failing one is what it was unless the payload provided it, in which case
\* it is the payload's (valid) value; the id and every other record are
\* unchanged.
C10_PatchFailureKeepsLaterFields ==
  [][ (Ran("Patch") /\ req'.id \in IDsOf(albums) /\ ValidationFailed(resp')) =>
        LET k == PositionOf(albums, req'.id)
            u == req'.body.val
        IN  /\ Len(albums') = Len(albums)
            /\ \A j \in 1..Len(albums) : j # k => albums'[j] = albums[j]
            /\ albums'[k].ID = albums[k].ID
            /\ albums'[k].Price = albums[k].Price
            /\ albums'[k].Artist = albums[k].Artist
            /\ resp'.error \in TitleMessages => albums'[k].Title = albums[k].Title
            /\ resp'.error \in ArtistMessages =>
                 /\ albums'[k].Title = (IF u.Title # "" THEN u.Title ELSE albums[k].Title)
                 /\ validateTitle(albums'[k].Title, TRUE) = ""
            /\ resp'.error \notin PriceMessages ]_vars

\* A Patch with a valid title, an invalid artist and a price has answered 400
\* with the artist's message: the record has the new title and its old artist
\* and price.
C10_Witness ==
  /\ After("Patch")
  /\ req.id = Seed1
  /\ req.body.val.Title = "Kind of Blue"
  /\ req.body.val.Artist = "M"
  /\ req.body.val.Price = 4999
  /\ resp.status = StatusBadRequest
  /\ resp.error = "Artist must be between 2 and 100 characters"
  /\ albums[1] = [seedAlbums[1] EXCEPT !.Title = "Kind of Blue"]

\* The message a Patch with this payload reports: that of the first field, in
\* the order title, artist, price, that is provided and fails validation; ""
\* when none does.
FirstProvidedFailure(u) ==
  IF u.Title # "" /\ validateTitle(u.Title, FALSE) # "" THEN validateTitle(u.Title, FALSE)
  ELSE IF u.Artist # "" /\ validateArtist(u.Artist, FALSE) # "" THEN validateArtist(u.Artist, FALSE)
  ELSE IF u.Price > 0 THEN validatePrice(u.Price, FALSE)
  ELSE ""

\* C11: a PatchByID of an id in the collection whose payload provides an
\* invalid title answers 400 with the title's message and leaves the whole
\* collection unchanged, whatever artist and price the payload carries; and the
\* message of any Patch is that of the earliest provided invalid field in the
\* order title, artist, price.
C11_PatchFieldOrder ==
  [][ (Ran("Patch") /\ req'.id \in IDsOf(albums) /\ ~req'.body.malformed) =>
        LET u == req'.body.val
        IN  /\ (u.Title # "" /\ (len(u.Title) < MinLen \/ len(u.Title) > MaxLen)) =>
                 /\ resp'.status = StatusBadRequest
                 /\ resp'.error = "Title must be between 2 and 100 characters"
                 /\ albums' = albums
            /\ resp'.error = FirstProvidedFailure(u)
            /\ resp'.status = (IF FirstProvidedFailure(u) = "" THEN StatusOK ELSE StatusBadRequest) ]_vars

\* A Patch with a one-letter title, an invalid artist and a valid price has
\* answered 400 with the title's message and changed nothing.
C11_Witness ==
  /\ After("Patch")
  /\ req.id = Seed2
  /\ req.body.val.Title = "A"
  /\ req.body.val.Artist = "M"
  /\ req.body.val.Price = 4999
  /\ resp.status = StatusBadRequest
  /\ resp.error = "Title must be between 2 and 100 characters"
  /\ albums = seedAlbums

\* C14: a PatchByID of an id in the collection whose payload has a valid title
\* and an invalid artist answers 400 with the artist's message; the record then
\* has the payload's title and the artist and price it had before, and the
\* other records are unchanged.
C14_PatchNotTransactional ==
  [][ ( /\ Ran("Patch") /\ req'.id \in IDsOf(albums) /\ ~req'.body.malformed
        /\ len(req'.body.val.Title) >= MinLen /\ len(req'.body.val.Title) <= MaxLen
        /\ req'.body.val.Artist # ""
        /\ (len(req'.body.val.Artist) < MinLen \/ len(req'.body.val.Artist) > MaxLen) ) =>
        LET k == PositionOf(albums, req'.id)
        IN  /\ resp'.status = StatusBadRequest
            /\ resp'.error = "Artist must be between 2 and 100 characters"
            /\ albums'[k].Title = req'.body.val.Title
            /\ albums'[k].Artist = albums[k].Artist
            /\ albums'[k].Price = albums[k].Price
            /\ albums'[k].ID = albums[k].ID
            /\ Len(albums') = Len(albums)
            /\ \A j \in 1..Len(albums) : j # k => albums'[j] = albums[j] ]_vars

\* A Patch of the second seed album with a new valid title, an invalid artist
\* and no price has answered 400, and the album's title is the new one.
C14_Witness ==
  /\ After("Patch")
  /\ req.id = Seed2
  /\ req.body.val.Title = "Kind of Blue"
  /\ req.body.val.Artist = "M"
  /\ req.body.val.Price = 0
  /\ resp.status = StatusBadRequest
  /\ resp.error = "Artist must be between 2 and 100 characters"
  /\ albums[2].ID = Seed2
  /\ albums[2].Title = "Kind of Blue"
  /\ albums[2].Title # seedAlbums[2].Title
  /\ albums[2].Artist = seedAlbums[2].Artist
  /\ albums[2].Price = seedAlbums[2].Price

\* C17: a malformed body draws 400 "Invalid JSON", with the decoder's message
\* as details, and no change from Create and from a PatchByID of an id in the
\* collection; a PatchByID of an id not in the collection answers 404 whatever
\* the body is.
C17_MalformedJSON ==
  [][ /\ (Ran("Create") /\ req'.body.malformed) =>
           /\ resp'.status = StatusBadRequest
           /\ resp'.error = "Invalid JSON"
           /\ resp'.details # ""
           /\ albums' = albums
           /\ uuidCount' = uuidCount
      /\ (Ran("Patch") /\ req'.body.malformed /\ req'.id \in IDsOf(albums)) =>
           /\ resp'.status = StatusBadRequest
           /\ resp'.error = "Invalid JSON"
           /\ resp'.details # ""
           /\ albums' = albums
      /\ (Ran("Patch") /\ req'.id \notin IDsOf(albums)) =>
           /\ resp'.status = StatusNotFound
           /\ resp'.message = "album not found"
           /\ albums' = albums ]_vars

\* A Patch of a seed album with a malformed body has answered 400 "Invalid
\* JSON".
C17_Witness ==
  /\ After("Patch")
  /\ req.id = Seed2
  /\ req.body.malformed
  /\ Seed2 \in IDsOf(albums)
  /\ resp.status = StatusBadRequest
  /\ resp.error = "Invalid JSON"

\* C18: in every reachable state every album in the collection has a price
\* greater than 0.
C18_PricesPositive ==
  \A i \in 1..Len(albums) : albums[i].Price > 0

\* A Patch whose payload carried a new title and the price 0 has answered 200:
\* the album has the new title and the price it had.
C18_Witness ==
  /\ After("Patch")
  /\ req.id = Seed1
  /\ req.body.val.Title = "Kind of Blue"
  /\ req.body.val.Artist = ""
  /\ req.body.val.Price = 0
  /\ resp.status = StatusOK
  /\ albums[1].Title = "Kind of Blue"
  /\ albums[1].Price = seedAlbums[1].Price

\* What the handler of the request served last yields when the same request
\* is issued again in the state the first call left.
Replay ==
  CASE req.op = "List" -> getAlbums(albums, uuidCount)
    [] req.op = "Create" -> postAlbums(albums, uuidCount, req.body)
    [] req.op = "Get" -> getAlbumByID(albums, uuidCount, req.id)
    [] req.op = "Delete" -> deleteAlbumByID(albums, uuidCount, req.id)
    [] req.op = "Patch" -> patchAlbumByID(albums, uuidCount, req.id, req.body)

\* Issuing the request again changes nothing and draws the same response.
ReplaySame == Replay.albums = albums /\ Replay.resp = resp

\* C15 as stated: List and GetByID are the only idempotent operations; a
\* repeated List or GetByID changes nothing and answers the same, and a
\* repeated Create, DeleteByID or PatchByID that succeeded the first time gives
\* a different collection or a different response the second time.
C15_OnlyListAndGetIdempotent ==
  pc = "done" =>
    /\ req.op \in {"List", "Get"} => ReplaySame
    /\ (req.op \in {"Create", "Delete", "Patch"} /\ resp.status \in {StatusOK, StatusCreated}) =>
         ~ReplaySame

\* C15 amended: List, GetByID and PatchByID are idempotent: the same request
\* issued again leaves the collection as the first call left it and draws the
\* same response.  Create and DeleteByID are not: a Create that answered 201,
\* issued again, appends another record and returns another id, and a Delete
\* that answered 200, issued again, answers 404.
C15_IdempotentOps ==
  pc = "done" =>
    /\ req.op \in {"List", "Get", "Patch"} => ReplaySame
    /\ (req.op = "Create" /\ resp.status = StatusCreated) =>
         /\ Replay.resp.status = StatusCreated
         /\ Len(Replay.albums) = Len(albums) + 1
         /\ Replay.resp.body[1].ID # resp.body[1].ID
    /\ (req.op = "Delete" /\ resp.status = StatusOK) =>
         /\ Replay.albums = albums
         /\ Replay.resp.status = StatusNotFound

\* A Patch has answered 200 after overwriting the title, the artist and the
\* price of a seed album.
C15_Witness ==
  /\ After("Patch")
  /\ req.id = Seed1
  /\ req.body.val.Title = "Kind of Blue"
  /\ req.body.val.Artist = "Miles Davis"
  /\ req.body.val.Price = 4999
  /\ resp.status = StatusOK
  /\ albums[1] = [ID |-> Seed1, Title |-> "Kind of Blue", Artist |-> "Miles Davis", Price |-> 4999]
  /\ albums[1] # seedAlbums[1]

\* ------------------------------------------------- the validators alone
\* A second specification: one call of one validator on an argument drawn from
\* bounded sets.  req holds the call, resp the string the validator returns.

\* The longest string a validator is called on.
MaxStrLen == 102

\* The validators are called on the prices -MaxPrice .. MaxPrice.
MaxPrice == 3

\* The string of n letters.
RECURSIVE StringOfLen(_)
StringOfLen(n) == IF n = 0 THEN "" ELSE "x" \o StringOfLen(n - 1)

ValidatorStrings == {StringOfLen(n) : n \in 0..MaxStrLen}
ValidatorPrices == (0 - MaxPrice)..MaxPrice

ValidatorCalls ==
  [fn : {"validateTitle", "validateArtist"}, value : ValidatorStrings, required : BOOLEAN]
    \cup [fn : {"validatePrice"}, value : ValidatorPrices, required : BOOLEAN]

InitValidators ==
  /\ albums = seedAlbums
  /\ uuidCount = 0
  /\ returned = {}
  /\ pc = "call"
  /\ req \in ValidatorCalls
  /\ resp = ""
  /\ local = <<>>

\* The call returns.
Return(fn, result) ==
  /\ pc = "call"
  /\ req.fn = fn
  /\ resp' = result
  /\ pc' = "return"
  /\ UNCHANGED <<albums, uuidCount, returned, req, local>>

CallValidateTitle == Return("validateTitle", validateTitle(req.value, req.required))

CallValidateArtist == Return("validateArtist", validateArtist(req.value, req.required))

CallValidatePrice == Return("validatePrice", validatePrice(req.value, req.required))

NextValidators ==
  \/ CallValidateTitle
  \/ CallValidateArtist
  \/ CallValidatePrice

SpecValidators == InitValidators /\ [][NextValidators]_vars

\* C16: every call of a validator returns, and what it returns is the
\* decision table's: validateTitle and validateArtist return the "is required"
\* message exactly when required and the value is empty, the "between 2 and 100
\* characters" message exactly when the value is not empty and its length is
\* below 2 or above 100, and "" otherwise; validatePrice returns the "required
\* and must be greater than 0" message exactly when required and the value is
\* <= 0, the "greater than or equal to 0" message exactly when not required and
\* the value is < 0, and "" otherwise.
C16_ValidatorTable ==
  /\ pc \in {"call", "return"}
  /\ (pc = "return" /\ req.fn = "validateTitle") =>
       /\ resp \in {"", "Title is required", "Title must be between 2 and 100 characters"}
       /\ resp = "Title is required" <=> (req.required /\ req.value = "")
       /\ resp = "Title must be between 2 and 100 characters" <=>
            (req.value # "" /\ (Len(req.value) < 2 \/ Len(req.value) > 100))
  /\ (pc = "return" /\ req.fn = "validateArtist") =>
       /\ resp \in {"", "Artist is required", "Artist must be between 2 and 100 characters"}
       /\ resp = "Artist is required" <=> (req.required /\ req.value = "")
       /\ resp = "Artist must be between 2 and 100 characters" <=>
            (req.value # "" /\ (Len(req.value) < 2 \/ Len(req.value) > 100))
  /\ (pc = "return" /\ req.fn = "validatePrice") =>
       /\ resp \in {"", "Price is required and must be greater than 0",
                    "Price must be greater than or equal to 0"}
       /\ resp = "Price is required and must be greater than 0" <=>
            (req.required /\ req.value <= 0)
       /\ resp = "Price must be greater than or equal to 0" <=>
            (~req.required /\ req.value < 0)

\* validateArtist, not required, has returned "" on a string of 100 letters.
C16_Witness ==
  /\ pc = "return"
  /\ req.fn = "validateArtist"
  /\ ~req.required
  /\ Len(req.value) = 100
  /\ resp = ""

\* --------------------------------------------------- concurrent requests
\* A third specification: net/http runs every request's handler in a goroutine
\* of its own, and the handlers share the one slice albums with no lock.  Each
\* of NumProcs goroutines serves one request.  A step is one statement of a
\* handler that reads or writes albums, together with the statements on the
\* handler's own variables before it; the range loop of a handler runs in one
\* step.  (The finer interleavings that the unsynchronised accesses allow only
\* add behaviours to the ones of this specification.)  Here pc, req, resp and
\* local are functions of the goroutine.

\* Number of requests in flight.
NumProcs == 2

StatusInternalServerError == 500

Procs == 1..NumProcs

\* A handler panicked (index or slice bounds out of range): the Recovery
\* middleware of gin.Default() answers 500.
PanicResponse ==
  [status |-> StatusInternalServerError, error |-> "", details |-> "", message |-> "", body |-> <<>>]

\* The local variables of a handler: the index i of the range loop (counted
\* from 1, 0 before the loop found anything), the loop's copy a of the record,
\* and newAlbum / update.
NoLocal == [i |-> 0, a |-> ZeroAlbum, v |-> ZeroAlbum]

ConcurrentBodies ==
  { BadBody,
    [malformed |-> FALSE, val |-> [ID |-> "", Title |-> "Kind of Blue", Artist |-> "Miles Davis", Price |-> 4999]],
    [malformed |-> FALSE, val |-> [ID |-> "", Title |-> "Kind of Blue", Artist |-> "", Price |-> 0]],
    [malformed |-> FALSE, val |-> [ID |-> "", Title |-> "Kind of Blue", Artist |-> "M", Price |-> 0]] }

ConcurrentIDs == {Seed1, Seed2, Seed3, "not-found"}

ConcurrentRequests ==
  {[op |-> "List", id |-> "", body |-> NoBody]}
    \cup {[op |-> "Create", id |-> "", body |-> b] : b \in ConcurrentBodies}
    \cup {[op |-> o, id |-> id, body |-> NoBody] : o \in {"Get", "Delete"}, id \in ConcurrentIDs}
    \cup {[op |-> "Patch", id |-> id, body |-> b] : id \in ConcurrentIDs, b \in ConcurrentBodies}

\* The first statement of the handler the router calls for the operation.
Entry(op) ==
  CASE op = "List" -> "getAlbums"
    [] op = "Create" -> "postAlbums"
    [] op = "Get" -> "getAlbumByID"
    [] op = "Delete" -> "deleteAlbumByID"
    [] op = "Patch" -> "patchAlbumByID"

InitConcurrent ==
  /\ albums = seedAlbums
  /\ uuidCount = 0
  /\ returned = {}
  /\ pc = [p \in Procs |-> "idle"]
  /\ req = [p \in Procs |-> NoReq]
  /\ resp = [p \in Procs |-> NoResp]
  /\ local = [p \in Procs |-> NoLocal]

\* A request arrives and the router calls its handler in a new goroutine.
Dispatch(p) ==
  /\ pc[p] = "idle"
  /\ \E r \in ConcurrentRequests :
       /\ req' = [req EXCEPT ![p] = r]
       /\ pc' = [pc EXCEPT ![p] = Entry(r.op)]
  /\ UNCHANGED <<albums, uuidCount, returned, resp, local>>

\* The handler of p writes response r and returns.
Finish(p, r) ==
  /\ resp' = [resp EXCEPT ![p] = r]
  /\ pc' = [pc EXCEPT ![p] = "done"]

\* getAlbums, whole.
GetAlbumsStep(p) ==
  /\ pc[p] = "getAlbums"
  /\ Finish(p, getAlbums(albums, uuidCount).resp)
  /\ UNCHANGED <<albums, uuidCount, returned, req, local>>

\* getAlbumByID, whole.
GetAlbumByIDStep(p) ==
  /\ pc[p] = "getAlbumByID"
  /\ Finish(p, getAlbumByID(albums, uuidCount, req[p].id).resp)
  /\ UNCHANGED <<albums, uuidCount, returned, req, local>>

\* postAlbums up to newAlbum.ID = uuid.New().String().
PostAlbumsBind(p) ==
  /\ pc[p] = "postAlbums"
  /\ uuidCount < MaxCreates
  /\ LET whole == postAlbums(albums, uuidCount, req[p].body)
     IN  IF whole.resp.status # StatusCreated
         THEN /\ Finish(p, whole.resp)
              /\ UNCHANGED <<uuidCount, local>>
         ELSE /\ local' = [local EXCEPT ![p].v =
                             assignID(ShouldBindJSON(req[p].body).val, uuidNew(uuidCount))]
              /\ uuidCount' = uuidCount + 1
              /\ pc' = [pc EXCEPT ![p] = "append"]
              /\ UNCHANGED resp
  /\ UNCHANGED <<albums, returned, req>>

\* albums = append(albums, newAlbum) and the 201 response.
PostAlbumsAppend(p) ==
  /\ pc[p] = "append"
  /\ albums' = appendAlbum(albums, local[p].v)
  /\ Finish(p, AlbumJSON(StatusCreated, local[p].v))
  /\ returned' = returned \cup {local[p].v.ID}
  /\ UNCHANGED <<uuidCount, req, local>>

\* The range loop of deleteAlbumByID.
DeleteScan(p) ==
  /\ pc[p] = "deleteAlbumByID"
  /\ LET i == scan(albums, req[p].id, 1)
     IN  IF i = 0
         THEN /\ Finish(p, NotFoundJSON)
              /\ UNCHANGED local
         ELSE /\ local' = [local EXCEPT ![p].i = i, ![p].a = albums[i]]
              /\ pc' = [pc EXCEPT ![p] = "remove"]
              /\ UNCHANGED resp
  /\ UNCHANGED <<albums, uuidCount, returned, req>>

\* albums = append(albums[:i], albums[i+1:]...) and the 200 response with the
\* loop's copy; albums[i+1:] panics when i+1 is beyond the slice's length.
DeleteRemove(p) ==
  /\ pc[p] = "remove"
  /\ IF local[p].i > Len(albums)
     THEN /\ Finish(p, PanicResponse)
          /\ UNCHANGED albums
     ELSE /\ albums' = removeAt(albums, local[p].i)
          /\ Finish(p, AlbumJSON(StatusOK, local[p].a))
  /\ UNCHANGED <<uuidCount, returned, req, local>>

\* The range loop of patchAlbumByID up to the match, and ShouldBindJSON.
PatchScan(p) ==
  /\ pc[p] = "patchAlbumByID"
  /\ LET i == scan(albums, req[p].id, 1)
         bound == ShouldBindJSON(req[p].body)
     IN  IF i = 0
         THEN /\ Finish(p, NotFoundJSON)
              /\ UNCHANGED local
         ELSE IF bound.err
         THEN /\ Finish(p, InvalidJSON)
              /\ UNCHANGED local
         ELSE /\ local' = [local EXCEPT ![p].i = i, ![p].a = albums[i], ![p].v = bound.val]
              /\ pc' = [pc EXCEPT ![p] = "title"]
              /\ UNCHANGED resp
  /\ UNCHANGED <<albums, uuidCount, returned, req>>

\* One field block of patchAlbumByID: the field is skipped when not provided,
\* draws 400 when invalid, and is else stored into albums[i], which panics when
\* i is beyond the slice's length.
PatchField(p, at, next, provided, errMsg, stored) ==
  /\ pc[p] = at
  /\ IF ~provided
     THEN /\ pc' = [pc EXCEPT ![p] = next]
          /\ UNCHANGED <<albums, resp>>
     ELSE IF errMsg # ""
     THEN /\ Finish(p, ErrorJSON(errMsg))
          /\ UNCHANGED albums
     ELSE IF local[p].i > Len(albums)
     THEN /\ Finish(p, PanicResponse)
          /\ UNCHANGED albums
     ELSE /\ albums' = stored
          /\ pc' = [pc EXCEPT ![p] = next]
          /\ UNCHANGED resp
  /\ UNCHANGED <<uuidCount, returned, req, local>>

PatchTitle(p) ==
  PatchField(p, "title", "artist",
             providedString(local[p].v.Title),
             validateTitle(local[p].v.Title, FALSE),
             [albums EXCEPT ![local[p].i].Title = local[p].v.Title])

PatchArtist(p) ==
  PatchField(p, "artist", "price",
             providedString(local[p].v.Artist),
             validateArtist(local[p].v.Artist, FALSE),
             [albums EXCEPT ![local[p].i].Artist = local[p].v.Artist])

PatchPrice(p) ==
  PatchField(p, "price", "respond",
             providedPrice(local[p].v.Price),
             validatePrice(local[p].v.Price, FALSE),
             [albums EXCEPT ![local[p].i].Price = local[p].v.Price])

\* c.IndentedJSON(http.StatusOK, albums[i])
PatchRespond(p) ==
  /\ pc[p] = "respond"
  /\ IF local[p].i > Len(albums)
     THEN Finish(p, PanicResponse)
     ELSE Finish(p, AlbumJSON(StatusOK, albums[local[p].i]))
  /\ UNCHANGED <<albums, uuidCount, returned, req, local>>

NextConcurrent ==
  \/ \E p \in Procs : Dispatch(p)
  \/ \E p \in Procs : GetAlbumsStep(p)
  \/ \E p \in Procs : GetAlbumByIDStep(p)
  \/ \E p \in Procs : PostAlbumsBind(p)
  \/ \E p \in Procs : PostAlbumsAppend(p)
  \/ \E p \in Procs : DeleteScan(p)
  \/ \E p \in Procs : DeleteRemove(p)
  \/ \E p \in Procs : PatchScan(p)
  \/ \E p \in Procs : PatchTitle(p)
  \/ \E p \in Procs : PatchArtist(p)
  \/ \E p \in Procs : PatchPrice(p)
  \/ \E p \in Procs : PatchRespond(p)

SpecConcurrent == InitConcurrent /\ [][NextConcurrent]_vars

\* Every request was answered.
AllDone == \A p \in Procs : pc[p] = "done"

\* The orders in which the requests can be put one after another.
Orders == {o \in [Procs -> Procs] : \A p, q \in Procs : o[p] = o[q] => p = q}

\* The position of the generator at which the Create of p drew its id (0 when
\* it drew none).
DrawnAt(p) ==
  IF \E n \in 0..(Len(UuidTokens) - 1) : uuidNew(n) = local[p].v.ID
  THEN CHOOSE n \in 0..(Len(UuidTokens) - 1) : uuidNew(n) = local[p].v.ID
  ELSE 0

\* What the handler of p's request yields when it runs alone, start to end, on
\* collection as (a Create drawing the id it drew).
Alone(as, p) ==
  CASE req[p].op = "List" -> getAlbums(as, 0)
    [] req[p].op = "Create" -> postAlbums(as, DrawnAt(p), req[p].body)
    [] req[p].op = "Get" -> getAlbumByID(as, 0, req[p].id)
    [] req[p].op = "Delete" -> deleteAlbumByID(as, 0, req[p].id)
    [] req[p].op = "Patch" -> patchAlbumByID(as, 0, req[p].id, req[p].body)

\* The collection after the first k requests of order o ran one after another
\* from the seed collection.
RECURSIVE AlbumsAfter(_, _)
AlbumsAfter(o, k) ==
  IF k = 0 THEN seedAlbums ELSE Alone(AlbumsAfter(o, k - 1), o[k]).albums

\* The final collection and every response are those of the requests run one
\* after another in order o.
SequentialOutcome(o) ==
  /\ AlbumsAfter(o, NumProcs) = albums
  /\ \A k \in Procs : Alone(AlbumsAfter(o, k - 1), o[k]).resp = resp[o[k]]

\* C12: with requests handled concurrently, once every request is answered
\* the collection and the responses are those of some order of the same
\* requests run one after another; and the record of every Create that
\* answered 201 is in the collection unless a Delete of its id answered 200.
C12_Linearizable ==
  /\ AllDone => \E o \in Orders : SequentialOutcome(o)
  /\ \A p \in Procs :
       (pc[p] = "done" /\ req[p].op = "Create" /\ resp[p].status = StatusCreated) =>
         \/ resp[p].body[1].ID \in IDsOf(albums)
         \/ \E q \in Procs : /\ pc[q] = "done" /\ req[q].op = "Delete"
                             /\ req[q].id = resp[p].body[1].ID /\ resp[q].status = StatusOK

\* C13: a Patch for id X writes only to the record whose id is X and a Delete
\* for id X removes only the record whose id is X, whatever other requests did
\* since the index of X was found.
C13_ScanThenMutateOnSameRecord ==
  [][ \A p \in Procs :
        /\ (pc[p] \in {"title", "artist", "price"} /\ pc'[p] # pc[p] /\ albums' # albums) =>
             /\ Len(albums') = Len(albums)
             /\ \A j \in 1..Len(albums) : albums'[j] # albums[j] => albums[j].ID = req[p].id
        /\ (pc[p] = "remove" /\ pc'[p] # pc[p] /\ albums' # albums) =>
             IDsOf(albums) \ IDsOf(albums') = {req[p].id} ]_vars

====
